---------------------------- MODULE Spec2Model ----------------------------
(***************************************************************************)
(* Model of src/app.py: the WGR / QLIRO reconciliation of process_data,    *)
(* the VAT summary of display_df_with_mismatch_highlight and the control   *)
(* flow of main.                                                           *)
(*                                                                         *)
(* Representation.                                                         *)
(*  - A DataFrame is a record [columns, index, rows]: the set of column    *)
(*    names, the index labels and the rows, each row a function from the   *)
(*    column names to cells.                                               *)
(*  - An amount cell is Num(v), NaN or Str: a float, a missing value, a    *)
(*    non-numeric text.  v counts 10^-5 currency units, so 0.01 is Cent    *)
(*    and every product price * (1 + rate/100) with a price in thousandths *)
(*    and a whole percentage is exact.  A VAT rate is Num(whole percent).  *)
(*  - A raw date cell is DateStr(day) ("2024-03-10"), DateTimeStr(day, h)  *)
(*    ("2024-03-10 00:00:00" for h = 0, "2024-03-10 12:00:00" for h = 1)   *)
(*    or NoDate; a Timestamp is Ts(v) with v counted in half days, so      *)
(*    midnight of day d is 2*d; NaT is the missing one.                    *)
(*  - A text is a sequence of one-character strings.                       *)
(***************************************************************************)
EXTENDS Integers, Sequences, FiniteSets, TLC

VARIABLES pc, wgr_file, qliro_file, wgr_df, qliro_df, start_date, end_date,
          date_column, results, raised, st_error, summaries

vars == <<pc, wgr_file, qliro_file, wgr_df, qliro_df, start_date, end_date,
          date_column, results, raised, st_error, summaries>>

---------------------------------------------------------------------------
(* Bounds of the model *)

\* most rows of an uploaded WGR file
MaxWgrRows == 1

\* most rows of an uploaded QLIRO file
MaxQliroRows == 2

\* start_date and end_date range over the days 0 .. MaxDay
MaxDay == 1

\* most rows of an uploaded file when a column is missing from a file
MaxRowsMissingColumn == 1

---------------------------------------------------------------------------
(* Names of the source *)

SETTLEMENT_DATE == "Avräkningsdatum"

ORDER_TIME == "Order time"

QLIRO_ORDER_ID == "Butiksordernummer"

WGR_ORDER_ID == "Order ID"

PAYMENT_METHOD == "Payment method"

MATCHING == "MATCHING"

MATCHING_ORDER_TIME_IN_PERIOD == "MATCHING_ORDER_TIME_IN_PERIOD"

MATCHING_AHEAD == "MATCHING_AHEAD"

ResultType == {MATCHING, MATCHING_ORDER_TIME_IN_PERIOD, MATCHING_AHEAD}

\* the column list of line 63
WGR_COLUMNS ==
    {WGR_ORDER_ID, "Total amount excl. VAT", "Total VAT", "Price excl. VAT",
     "Average VAT rate (%)", ORDER_TIME}

\* the column list of line 70
QLIRO_COLUMNS ==
    {QLIRO_ORDER_ID, "Belopp", "Avräkningsstatus", SETTLEMENT_DATE,
     "Transaktionsslutdatum", "Betalning transaktionsreferens"}

\* the columns the uploaded files carry when none is missing
WgrFileColumns == WGR_COLUMNS \cup {PAYMENT_METHOD}

QliroFileColumns == QLIRO_COLUMNS

None == [t |-> "None"]

---------------------------------------------------------------------------
(* Cells *)

\* 0.01 currency units, in the 10^-5 units amounts are counted in
Cent == 10 * 10 * 10

NaN == [t |-> "nan", v |-> 0]

Num(x) == [t |-> "num", v |-> x]

\* a text that is no number, such as "abc" or "100,00"
Str == [t |-> "str", v |-> 0]

NaT == [t |-> "NaT", v |-> 0]

Ts(x) == [t |-> "ts", v |-> x]

DateStr(day) == [t |-> "date", day |-> day, half |-> 0]

DateTimeStr(day, half) == [t |-> "datetime", day |-> day, half |-> half]

NoDate == [t |-> "nan", day |-> 0, half |-> 0]

Abs(x) == IF x < 0 THEN -x ELSE x

---------------------------------------------------------------------------
(* Text *)

Digits == <<"0", "1", "2", "3", "4", "5", "6", "7", "8", "9">>

\* str(n) of a non-negative int: its decimal digits
RECURSIVE IntToStr(_)
IntToStr(n) ==
    IF n < 10 THEN <<Digits[n + 1]>>
    ELSE Append(IntToStr(n \div 10), Digits[(n % 10) + 1])

\* s.replace(old, ""): every non-overlapping occurrence of old, found from
\* the left, is removed; the text that results is not scanned again
RECURSIVE StrRemoveAll(_, _)
StrRemoveAll(s, old) ==
    IF Len(s) < Len(old) THEN s
    ELSE IF SubSeq(s, 1, Len(old)) = old
         THEN StrRemoveAll(SubSeq(s, Len(old) + 1, Len(s)), old)
         ELSE <<Head(s)>> \o StrRemoveAll(Tail(s), old)

WGR_TOKEN == <<"W", "G", "R">>

\* Series.str.replace('WGR', '') on one cell
StrReplaceWGR(s) == StrRemoveAll(s, WGR_TOKEN)

---------------------------------------------------------------------------
(* Arithmetic on cells.  A column that holds a text is of dtype object: the
   operation is tried on the values themselves, and where that raises a
   TypeError it is done again on the pairs without a missing value only, a
   pair with a missing value giving NaN. *)

IsNum(c) == c.t = "num"

IsStr(c) == c.t = "str"

\* the outcome of an operation on one cell that raises a TypeError whose
\* text names the types in types
TypeError(types) == [t |-> "TypeError", v |-> 0, types |-> types]

IsTypeError(c) == c.t = "TypeError"

\* 'abc' + 20.0: 'can only concatenate str (not "float") to str';
\* 20.0 + 'abc': "unsupported operand type(s) for +: 'float' and 'str'"
ADD_TYPES == {"str", "float"}

\* 'abc' / 100: "unsupported operand type(s) for /: 'str' and 'int'"
DIV_TYPES == {"str", "int"}

\* 'abc' * 1.25: "can't multiply sequence by non-int of type 'float'"
MUL_TYPES == {"float"}

\* a + b: floats are added and NaN propagates, two texts are concatenated
\* (to a text that is no number), a text and a float raise a TypeError, a
\* text and a missing value give NaN
Add(a, b) ==
    IF IsNum(a) /\ IsNum(b) THEN Num(a.v + b.v)
    ELSE IF IsStr(a) /\ IsStr(b) THEN Str
    ELSE IF (IsStr(a) /\ IsNum(b)) \/ (IsNum(a) /\ IsStr(b))
         THEN TypeError(ADD_TYPES)
    ELSE NaN

\* a - b on float cells
Sub(a, b) == IF IsNum(a) /\ IsNum(b) THEN Num(a.v - b.v) ELSE NaN

\* price * (1 + rate / 100), rate a whole percentage and price a multiple of
\* 0.001: a text rate raises a TypeError in rate / 100, a text price one in
\* the product unless the factor is NaN
PriceWithVat(price, rate) ==
    IF IsStr(rate) THEN TypeError(DIV_TYPES)
    ELSE IF IsStr(price) /\ IsNum(rate) THEN TypeError(MUL_TYPES)
    ELSE IF IsNum(price) /\ IsNum(rate)
         THEN CASE (price.v * (100 + rate.v)) % 100 = 0 ->
                  Num((price.v * (100 + rate.v)) \div 100)
         ELSE NaN

\* x == 0 on a cell: False for NaN and for a text
EqZero(c) == IsNum(c) /\ c.v = 0

\* rint(x * 100) / 100 of an amount that is not halfway between two multiples
\* of 0.01: the nearest multiple.  Of an amount halfway the code rounds the
\* binary double, which lies on either side of the decimal half (1.015 gives
\* 1.01, 0.545 gives 0.55); no such amount is modelled.
RoundToCent(x) ==
    LET q == x \div Cent
        r == x % Cent
    IN  CASE 2 * r < Cent -> q * Cent
          [] 2 * r > Cent -> (q + 1) * Cent

\* Series.round(2) on one cell
Round2(c) == IF IsNum(c) THEN Num(RoundToCent(c.v)) ELSE NaN

\* pd.to_numeric(errors='coerce') on one cell
ToNumeric(c) == IF IsNum(c) THEN c ELSE NaN

\* the 0.01 of line 111
TOLERANCE == Cent

\* the flag with the tolerance itself counted as a mismatch
AbsAtLeastTolerance(c) == IsNum(c) /\ Abs(c.v) >= TOLERANCE

\* abs(x) > 0.01 on one cell: a comparison with NaN is False
AbsGreaterThanTolerance(c) == IsNum(c) /\ Abs(c.v) > TOLERANCE

---------------------------------------------------------------------------
(* Timestamps *)

\* pd.to_datetime on one raw date cell
ToDatetime(c) ==
    IF c.t = "nan" THEN NaT
    ELSE IF c.t = "date" THEN Ts(2 * c.day)
    ELSE Ts(2 * c.day + c.half)

\* pd.to_datetime(date): midnight of that day
DateToDatetime(day) == Ts(2 * day)

\* a >= b, a <= b, a > b on Timestamps: False when either is NaT
TsGe(a, b) == a.t = "ts" /\ b.t = "ts" /\ a.v >= b.v

TsLe(a, b) == a.t = "ts" /\ b.t = "ts" /\ a.v <= b.v

TsGt(a, b) == a.t = "ts" /\ b.t = "ts" /\ a.v > b.v

---------------------------------------------------------------------------
(* DataFrames *)

DataFrame(cols, idx, rws) == [columns |-> cols, index |-> idx, rows |-> rws]

NRows(df) == Len(df.rows)

\* the positions at which a boolean Series is True, in order
Positions(mask) ==
    LET F[i \in 0..Len(mask)] ==
            IF i = 0 THEN <<>>
            ELSE IF mask[i] THEN Append(F[i - 1], i) ELSE F[i - 1]
    IN  F[Len(mask)]

\* df[mask]: the rows at which the mask is True, with their index labels
TakeRows(df, mask) ==
    LET pos == Positions(mask)
    IN  DataFrame(df.columns,
                  [k \in 1..Len(pos) |-> df.index[pos[k]]],
                  [k \in 1..Len(pos) |-> df.rows[pos[k]]])

\* df[[c1, ..., cn]] with every column present
SelectColumns(df, cols) ==
    DataFrame(cols, df.index,
              [k \in 1..NRows(df) |-> [c \in cols |-> df.rows[k][c]]])

\* df[col] = values: the column is added or overwritten, row by row
AssignColumn(df, col, values) ==
    DataFrame(df.columns \cup {col}, df.index,
              [k \in 1..NRows(df) |-> (col :> values[k]) @@ df.rows[k]])

\* df.drop(columns=[col])
DropColumn(df, col) ==
    DataFrame(df.columns \ {col}, df.index,
              [k \in 1..NRows(df) |->
                  [c \in df.columns \ {col} |-> df.rows[k][c]]])

\* 0, 1, ..., n - 1
RangeIndex(n) == [k \in 1..n |-> k - 1]

---------------------------------------------------------------------------
(* process_data, step by step *)

\* line 61: wgr_df[wgr_df['Payment method'] == 'QLIROCHECKOUT']
FilterQliroCheckout(wgr) ==
    TakeRows(wgr, [k \in 1..NRows(wgr) |->
                      wgr.rows[k][PAYMENT_METHOD] = "QLIROCHECKOUT"])

\* line 67: the caller's QLIRO frame with its order ids rewritten
FixOrderIDs(qliro) ==
    AssignColumn(qliro, QLIRO_ORDER_ID,
        [k \in 1..NRows(qliro) |->
            StrReplaceWGR(qliro.rows[k][QLIRO_ORDER_ID])])

\* line 74: the int64 order ids of WGR as text
WgrOrderIdAsStr(wgr) ==
    AssignColumn(wgr, WGR_ORDER_ID,
        [k \in 1..NRows(wgr) |-> IntToStr(wgr.rows[k][WGR_ORDER_ID])])

\* line 75: the QLIRO order ids are text already; str of a text is that text
QliroOrderIdAsStr(qliro) ==
    AssignColumn(qliro, QLIRO_ORDER_ID,
        [k \in 1..NRows(qliro) |-> qliro.rows[k][QLIRO_ORDER_ID]])

\* lines 79-83 on one row: the sum, or the price with VAT where the sum is 0
\* (a sum that raised a TypeError is no sum to compare)
TotalPaidWGR(r) ==
    LET total == Add(r["Total amount excl. VAT"], r["Total VAT"])
    IN  IF EqZero(total)
        THEN PriceWithVat(r["Price excl. VAT"], r["Average VAT rate (%)"])
        ELSE total

\* lines 79-83
AddTotalPaidWGR(wgr) ==
    AssignColumn(wgr, "Total Paid WGR",
        [k \in 1..NRows(wgr) |-> TotalPaidWGR(wgr.rows[k])])

\* the (left, right) row positions of the inner join, in the order of the
\* left rows and, for one left row, of the right rows
RECURSIVE MergePairs(_, _, _)
MergePairs(wgr, qliro, i) ==
    IF i > NRows(wgr) THEN <<>>
    ELSE LET js == Positions([j \in 1..NRows(qliro) |->
                       qliro.rows[j][QLIRO_ORDER_ID]
                           = wgr.rows[i][WGR_ORDER_ID]])
         IN  [k \in 1..Len(js) |-> <<i, js[k]>>]
                 \o MergePairs(wgr, qliro, i + 1)

\* lines 85-91: pd.merge(..., how='inner'); the result has a fresh RangeIndex
Merge(wgr, qliro) ==
    LET pairs == MergePairs(wgr, qliro, 1)
    IN  DataFrame(wgr.columns \cup qliro.columns,
                  RangeIndex(Len(pairs)),
                  [k \in 1..Len(pairs) |->
                      wgr.rows[pairs[k][1]] @@ qliro.rows[pairs[k][2]]])

\* lines 97-98
CoerceAmounts(df) ==
    LET a == AssignColumn(df, "Total Paid WGR",
                 [k \in 1..NRows(df) |->
                     ToNumeric(df.rows[k]["Total Paid WGR"])])
    IN  AssignColumn(a, "Belopp",
            [k \in 1..NRows(a) |-> ToNumeric(a.rows[k]["Belopp"])])

\* lines 104-105
RoundAmounts(df) ==
    LET a == AssignColumn(df, "Total Paid WGR",
                 [k \in 1..NRows(df) |-> Round2(df.rows[k]["Total Paid WGR"])])
    IN  AssignColumn(a, "Belopp",
            [k \in 1..NRows(a) |-> Round2(a.rows[k]["Belopp"])])

\* line 108 on one row
AmountDifference(r) == Round2(Sub(r["Total Paid WGR"], r["Belopp"]))

\* line 111 on one row
AmountMismatch(r) == AbsGreaterThanTolerance(r["Amount Difference"])

\* lines 108-111
FindMismatches(df) ==
    LET d == AssignColumn(df, "Amount Difference",
                 [k \in 1..NRows(df) |-> AmountDifference(df.rows[k])])
    IN  AssignColumn(d, "Amount Mismatch",
            [k \in 1..NRows(d) |-> AmountMismatch(d.rows[k])])

\* lines 118-119
FixDateTypes(df) ==
    LET a == AssignColumn(df, ORDER_TIME,
                 [k \in 1..NRows(df) |-> ToDatetime(df.rows[k][ORDER_TIME])])
    IN  AssignColumn(a, SETTLEMENT_DATE,
            [k \in 1..NRows(a) |-> ToDatetime(a.rows[k][SETTLEMENT_DATE])])

\* the period with its end excluded
InPeriodRowExclusiveEnd(r, col, start_datetime, end_datetime) ==
    TsGe(r[col], start_datetime) /\ TsLe(r[col], end_datetime)
        /\ r[col].v # end_datetime.v

\* the rows ahead of the period with the end of the period among them
AheadRowInclusive(r, col, end_datetime) == TsGe(r[col], end_datetime)

\* line 130 on one row
InPeriodRow(r, col, start_datetime, end_datetime) ==
    TsGe(r[col], start_datetime) /\ TsLe(r[col], end_datetime)

\* line 133 on one row
AheadRow(r, col, end_datetime) == TsGt(r[col], end_datetime)

\* line 130
MergedInPeriod(merged, col, start_datetime, end_datetime) ==
    TakeRows(merged, [k \in 1..NRows(merged) |->
        InPeriodRow(merged.rows[k], col, start_datetime, end_datetime)])

\* line 133
MergedAhead(merged, col, end_datetime) ==
    TakeRows(merged, [k \in 1..NRows(merged) |->
        AheadRow(merged.rows[k], col, end_datetime)])

\* lines 61-83 on the WGR frame: the QLIROCHECKOUT rows with their total paid
WgrWithTotalPaid(wgr) ==
    AddTotalPaidWGR(WgrOrderIdAsStr(
        SelectColumns(FilterQliroCheckout(wgr), WGR_COLUMNS)))

\* the TypeErrors of lines 79-83 over the QLIROCHECKOUT rows
TypeErrors(wgr) ==
    {c \in {TotalPaidWGR(wgr.rows[k]) :
                k \in {i \in 1..NRows(wgr) :
                          wgr.rows[i][PAYMENT_METHOD] = "QLIROCHECKOUT"}} :
        IsTypeError(c)}

\* whether line 79 or line 83 raises a TypeError: a QLIROCHECKOUT row adds a
\* text to a float, or has a total of 0 and a text for its price or its rate
RaisesTypeError(wgr) == TypeErrors(wgr) # {}

\* the types the text of the TypeError raised names: the sum of line 79 is
\* evaluated on every row before line 83 is; in line 83 the division of the
\* rates comes before the product with the prices
RaisedTypes(wgr) ==
    IF TypeError(ADD_TYPES) \in TypeErrors(wgr) THEN ADD_TYPES
    ELSE IF TypeError(DIV_TYPES) \in TypeErrors(wgr) THEN DIV_TYPES
    ELSE MUL_TYPES

\* lines 61-94: merged_df as joined, when no column is missing and no
\* TypeError is raised
MergedRaw(wgr, qliro) ==
    LET w == WgrWithTotalPaid(wgr)
        q == QliroOrderIdAsStr(SelectColumns(FixOrderIDs(qliro),
                                             QLIRO_COLUMNS))
    IN  DropColumn(Merge(w, q), QLIRO_ORDER_ID)

\* lines 61-119: merged_df with its amounts, difference, flag and dates
MergedDf(wgr, qliro) ==
    FixDateTypes(FindMismatches(RoundAmounts(CoerceAmounts(
        MergedRaw(wgr, qliro)))))

\* lines 122-139: the dictionary process_data returns
Results(wgr, qliro, start, end, col) ==
    LET merged == MergedDf(wgr, qliro)
        start_datetime == DateToDatetime(start)
        end_datetime == DateToDatetime(end)
    IN  [g \in ResultType |->
            IF g = MATCHING THEN merged
            ELSE IF g = MATCHING_ORDER_TIME_IN_PERIOD
                 THEN MergedInPeriod(merged, col, start_datetime, end_datetime)
                 ELSE MergedAhead(merged, col, end_datetime)]

\* the columns whose lookup fails, at the first line that fails: 61, 63, 67
\* or 70 (none when every lookup succeeds)
KeyErrorColumns(wgr, qliro) ==
    IF PAYMENT_METHOD \notin wgr.columns THEN {PAYMENT_METHOD}
    ELSE IF WGR_COLUMNS \ wgr.columns # {} THEN WGR_COLUMNS \ wgr.columns
    ELSE IF QLIRO_ORDER_ID \notin qliro.columns THEN {QLIRO_ORDER_ID}
    ELSE QLIRO_COLUMNS \ qliro.columns

\* whether line 67 is executed: nothing before it failed, nor its own lookup
ReachesLine67(wgr, qliro) ==
    /\ PAYMENT_METHOD \in wgr.columns
    /\ WGR_COLUMNS \subseteq wgr.columns
    /\ QLIRO_ORDER_ID \in qliro.columns

\* str(e) of a KeyError: the columns that were not found and nothing else
KeyErrorText(missing) == [columns |-> missing, types |-> {}]

\* str(e) of the TypeError of lines 79-83: the types it names and no column
TypeErrorText(types) == [columns |-> {}, types |-> types]

\* line 142: st.error(f"Error processing files: {str(e)}")
ErrorMessage(cause) ==
    [text |-> "Error processing files: ", cause |-> cause]

Exception(type, columns, side) ==
    [type |-> type, columns |-> columns, side |-> side]

NoException == Exception("None", {}, "")

\* lines 141-143: every Exception is caught; none leaves process_data
RaisedToCaller(cause) == NoException

---------------------------------------------------------------------------
(* display_df_with_mismatch_highlight: the summary by VAT percentage *)

\* the sum of a column over rows, NaN skipped (0 when nothing is summed)
RECURSIVE SumColumn(_, _)
SumColumn(rws, col) ==
    IF rws = <<>> THEN 0
    ELSE (IF IsNum(Head(rws)[col]) THEN Head(rws)[col].v ELSE 0)
             + SumColumn(Tail(rws), col)

\* the group keys of groupby('Average VAT rate (%)'): a missing rate is no key
GroupKeys(df) ==
    {df.rows[k]["Average VAT rate (%)"].v : k \in
        {i \in 1..NRows(df) : IsNum(df.rows[i]["Average VAT rate (%)"])}}

\* a finite set of integers in ascending order
RECURSIVE Ascending(_)
Ascending(S) ==
    IF S = {} THEN <<>>
    ELSE LET m == CHOOSE x \in S : \A y \in S : x <= y
         IN  <<m>> \o Ascending(S \ {m})

\* the rows of one group
GroupRows(df, rate) ==
    SelectSeq(df.rows, LAMBDA r : r["Average VAT rate (%)"] = Num(rate))

\* lines 153-161: one row per VAT rate, the three sums rounded to 0.01
VatSummary(df) ==
    LET keys == Ascending(GroupKeys(df))
    IN  [k \in 1..Len(keys) |->
            LET rws == GroupRows(df, keys[k])
            IN  [rate |-> keys[k],
                 TotalPaidWGR |->
                     RoundToCent(SumColumn(rws, "Total Paid WGR")),
                 Belopp |-> RoundToCent(SumColumn(rws, "Belopp")),
                 AmountDifference |->
                     RoundToCent(SumColumn(rws, "Amount Difference"))]]

\* lines 146-151: the labels of the frame of styles that Styler.apply builds
\* from the lists the lambda returns, one list per column: 0 .. n-1, or the
\* column names when the frame has as many rows as columns
StyleIndexLabels(df) ==
    IF NRows(df) = Cardinality(df.columns) THEN df.columns
    ELSE {k - 1 : k \in 1..NRows(df)}

\* lines 146-151: whether st.dataframe(df.style.apply(...)) raises ValueError
\* ("created invalid index labels"): a frame with rows whose styles carry a
\* label that is no index label of the frame
StyleRaises(df) ==
    /\ NRows(df) > 0
    /\ ~(StyleIndexLabels(df) \subseteq {df.index[k] : k \in 1..NRows(df)})

\* lines 177-184: the order the groups are displayed in
DISPLAY_ORDER == <<MATCHING, MATCHING_ORDER_TIME_IN_PERIOD, MATCHING_AHEAD>>

\* the groups whose summary is computed: those displayed before the first
\* group whose styling raises
ShownGroups(res) ==
    {DISPLAY_ORDER[i] : i \in
        {j \in 1..Len(DISPLAY_ORDER) :
            \A h \in 1..j : ~StyleRaises(res[DISPLAY_ORDER[h]])}}

---------------------------------------------------------------------------
(* The uploaded files *)

WgrRow(id, method, excl, vat, price, rate, time) ==
    (WGR_ORDER_ID :> id) @@ (PAYMENT_METHOD :> method)
        @@ ("Total amount excl. VAT" :> excl) @@ ("Total VAT" :> vat)
        @@ ("Price excl. VAT" :> price) @@ ("Average VAT rate (%)" :> rate)
        @@ (ORDER_TIME :> time)

QliroRow(id, belopp, settled) ==
    (QLIRO_ORDER_ID :> id) @@ ("Belopp" :> belopp)
        @@ ("Avräkningsstatus" :> "Paid") @@ (SETTLEMENT_DATE :> settled)
        @@ ("Transaktionsslutdatum" :> settled)
        @@ ("Betalning transaktionsreferens" :> "ref")

\* The 'Order time' cells of WGR are texts with a time of day, the
\* 'Avräkningsdatum' cells of QLIRO texts without one, or missing.
\*
\* the rows a WGR file is made of:
\*   1  order 1, 80.00 + 20.00 at 25 %, ordered on day 0 at 00:00
\*   2  the same order paid by invoice, its total excl. VAT a text
\*   3  order 12 with both totals 0 and a price of 80.00 at 6 % (84.80 with
\*      VAT), ordered on day 1 at noon
\*   4  order 12, 64.806 + 20.00, no VAT rate, no order time
\*   5  order 1 with no total excl. VAT, 25 %, ordered on day 0 at noon
\*   6  order 1 with a text for its total excl. VAT beside a VAT of 20.00
\*   7  order 1 with a text for each of its two totals
\*   8  order 12 with both totals 0 and a text for its price, at 25 %
\*   9  order 12 with both totals 0 and a text for its VAT rate
WgrCatalog ==
    << WgrRow(1, "QLIROCHECKOUT", Num(8000 * Cent), Num(2000 * Cent),
              Num(8000 * Cent), Num(25), DateTimeStr(0, 0)),
       WgrRow(1, "INVOICE", Str, Num(2000 * Cent),
              Num(8000 * Cent), Num(25), DateTimeStr(0, 0)),
       WgrRow(12, "QLIROCHECKOUT", Num(0), Num(0),
              Num(8000 * Cent), Num(6), DateTimeStr(1, 1)),
       WgrRow(12, "QLIROCHECKOUT", Num(6480 * Cent + 600), Num(2000 * Cent),
              Num(6480 * Cent + 600), NaN, NoDate),
       WgrRow(1, "QLIROCHECKOUT", NaN, Num(2000 * Cent),
              Num(8000 * Cent), Num(25), DateTimeStr(0, 1)),
       WgrRow(1, "QLIROCHECKOUT", Str, Num(2000 * Cent),
              Num(8000 * Cent), Num(25), DateTimeStr(0, 0)),
       WgrRow(1, "QLIROCHECKOUT", Str, Str,
              Num(8000 * Cent), Num(25), DateTimeStr(1, 0)),
       WgrRow(12, "QLIROCHECKOUT", Num(0), Num(0),
              Str, Num(25), DateTimeStr(1, 0)),
       WgrRow(12, "QLIROCHECKOUT", Num(0), Num(0),
              Num(8000 * Cent), Str, DateTimeStr(1, 0)) >>

\* the rows a QLIRO file is made of:
\*   1  "WGR1", 100.00, settled on day 1
\*   2  "WGR1", an amount that is no number, settled on day 2
\*   3  "WGR12", 84.794, settled on day 0
\*   4  "1WGR", 95.00, no settlement date
\*   5  "WGR12", 84.78, settled on day 1
QliroCatalog ==
    << QliroRow(<<"W", "G", "R", "1">>, Num(10000 * Cent), DateStr(1)),
       QliroRow(<<"W", "G", "R", "1">>, Str, DateStr(2)),
       QliroRow(<<"W", "G", "R", "1", "2">>, Num(8479 * Cent + 400),
                DateStr(0)),
       QliroRow(<<"1", "W", "G", "R">>, Num(9500 * Cent), NoDate),
       QliroRow(<<"W", "G", "R", "1", "2">>, Num(8478 * Cent), DateStr(1)) >>

\* the first n rows of a catalog (all of them when it has fewer)
FirstRows(catalog, n) ==
    SubSeq(catalog, 1, IF n < Len(catalog) THEN n ELSE Len(catalog))

\* the sequences of at most n rows of a catalog
RowSeqs(catalog, n) ==
    UNION {[1..k -> {catalog[i] : i \in DOMAIN catalog}] : k \in 0..n}

\* pd.read_csv: a frame with a RangeIndex
ReadCsv(cols, rws) == DataFrame(cols, RangeIndex(Len(rws)), rws)

\* a file whose header lacks the columns in missing
WithoutColumns(df, missing) ==
    SelectColumns(df, df.columns \ missing)

\* one column is missing from the two files together
MissingChoices ==
    {<<{c}, {}>> : c \in WgrFileColumns}
        \cup {<<{}, {c}>> : c \in QliroFileColumns}

---------------------------------------------------------------------------
(* The program *)

Init ==
    /\ pc = "main"
    /\ wgr_file = None
    /\ qliro_file = None
    /\ wgr_df = None
    /\ qliro_df = None
    /\ start_date = None
    /\ end_date = None
    /\ date_column = None
    /\ results = None
    /\ raised = NoException
    /\ st_error = None
    /\ summaries = None

\* get_user_inputs with both files uploaded (lines 45-51), each file with
\* every column
GetUserInputs ==
    /\ pc = "main"
    /\ \E w \in RowSeqs(WgrCatalog, MaxWgrRows),
          q \in RowSeqs(QliroCatalog, MaxQliroRows) :
          /\ wgr_file' = ReadCsv(WgrFileColumns, w)
          /\ qliro_file' = ReadCsv(QliroFileColumns, q)
    /\ wgr_df' = wgr_file'
    /\ qliro_df' = qliro_file'
    /\ start_date' \in 0..MaxDay
    /\ end_date' \in 0..MaxDay
    /\ date_column' \in {SETTLEMENT_DATE, ORDER_TIME}
    /\ pc' = "process_data"
    /\ UNCHANGED <<results, raised, st_error, summaries>>

\* get_user_inputs with both files uploaded (lines 45-51), one of them
\* without one of its columns; the files hold the first rows of the catalogs
GetUserInputsMissingColumn ==
    /\ pc = "main"
    /\ \E n \in 0..MaxRowsMissingColumn, m \in 0..MaxRowsMissingColumn,
          miss \in MissingChoices :
          /\ wgr_file' = WithoutColumns(
                 ReadCsv(WgrFileColumns, FirstRows(WgrCatalog, n)), miss[1])
          /\ qliro_file' = WithoutColumns(
                 ReadCsv(QliroFileColumns, FirstRows(QliroCatalog, m)),
                 miss[2])
    /\ wgr_df' = wgr_file'
    /\ qliro_df' = qliro_file'
    /\ start_date' \in 0..MaxDay
    /\ end_date' \in 0..MaxDay
    /\ date_column' \in {SETTLEMENT_DATE, ORDER_TIME}
    /\ pc' = "process_data"
    /\ UNCHANGED <<results, raised, st_error, summaries>>

\* get_user_inputs with a file not uploaded (lines 42-43), and main's
\* st.info (line 198)
GetNoInputs ==
    /\ pc = "main"
    /\ start_date' \in 0..MaxDay
    /\ end_date' \in 0..MaxDay
    /\ pc' = "info"
    /\ UNCHANGED <<wgr_file, qliro_file, wgr_df, qliro_df, date_column,
                   results, raised, st_error, summaries>>

\* process_data(wgr_df, qliro_df, start_date, end_date, date_column), and
\* main's test of what it returned (lines 194-195)
ProcessData ==
    /\ pc = "process_data"
    /\ LET missing == KeyErrorColumns(wgr_df, qliro_df)
       IN  /\ qliro_df' = IF ReachesLine67(wgr_df, qliro_df)
                          THEN FixOrderIDs(qliro_df)
                          ELSE qliro_df
           /\ IF missing # {}
              THEN /\ results' = None
                   /\ st_error' = ErrorMessage(KeyErrorText(missing))
                   /\ raised' = RaisedToCaller(KeyErrorText(missing))
                   /\ pc' = "done"
              ELSE IF RaisesTypeError(wgr_df)
              THEN /\ results' = None
                   /\ st_error' =
                          ErrorMessage(TypeErrorText(RaisedTypes(wgr_df)))
                   /\ raised' =
                          RaisedToCaller(TypeErrorText(RaisedTypes(wgr_df)))
                   /\ pc' = "done"
              ELSE /\ results' = Results(wgr_df, qliro_df, start_date,
                                         end_date, date_column)
                   /\ st_error' = None
                   /\ raised' = NoException
                   /\ pc' = "display_results"
    /\ UNCHANGED <<wgr_file, qliro_file, wgr_df, start_date, end_date,
                   date_column, summaries>>

\* display_results: the three groups in turn, each styled and then summarised;
\* the ValueError of a group's styling is caught nowhere, it leaves
\* display_results and main and the groups from that one on are not summarised
DisplayResults ==
    /\ pc = "display_results"
    /\ summaries' = [g \in ShownGroups(results) |-> VatSummary(results[g])]
    /\ pc' = IF ShownGroups(results) = ResultType THEN "done" ELSE "error"
    /\ UNCHANGED <<wgr_file, qliro_file, wgr_df, qliro_df, start_date,
                   end_date, date_column, results, raised, st_error>>

Next ==
    \/ GetUserInputs
    \/ GetUserInputsMissingColumn
    \/ GetNoInputs
    \/ ProcessData
    \/ DisplayResults

Spec == Init /\ [][Next]_vars

---------------------------------------------------------------------------
(* Properties *)

\* process_data has returned
Processed == pc \in {"display_results", "done", "error"}

\* process_data has returned its dictionary of groups
HasResults == Processed /\ results # None

\* both files carry every column
FilesComplete ==
    /\ wgr_file.columns = WgrFileColumns
    /\ qliro_file.columns = QliroFileColumns

\* the columns the files lack
MissingFromFiles ==
    (WgrFileColumns \ wgr_file.columns)
        \cup (QliroFileColumns \ qliro_file.columns)

AllMatched == results[MATCHING]

InPeriod == results[MATCHING_ORDER_TIME_IN_PERIOD]

Ahead == results[MATCHING_AHEAD]

IndexLabels(df) == {df.index[k] : k \in 1..NRows(df)}

\* the records of a frame: its rows with their index labels
Records(df) == {<<df.index[k], df.rows[k]>> : k \in 1..NRows(df)}

\* s without a leading "WGR"
StripPrefixWGR(s) ==
    IF Len(s) >= Len(WGR_TOKEN) /\ SubSeq(s, 1, Len(WGR_TOKEN)) = WGR_TOKEN
    THEN SubSeq(s, Len(WGR_TOKEN) + 1, Len(s))
    ELSE s

\* the order ids of the WGR rows paid through QLIROCHECKOUT, as text
WgrKeys ==
    {IntToStr(wgr_file.rows[k][WGR_ORDER_ID]) :
        k \in {i \in 1..NRows(wgr_file) :
                  wgr_file.rows[i][PAYMENT_METHOD] = "QLIROCHECKOUT"}}

\* the order ids of the QLIRO rows with the prefix "WGR" stripped
QliroKeysPrefixStripped ==
    {StripPrefixWGR(qliro_file.rows[k][QLIRO_ORDER_ID]) :
        k \in 1..NRows(qliro_file)}

\* the order ids of the QLIRO rows as line 67 rewrites them
QliroKeysReplaced ==
    {StrReplaceWGR(qliro_file.rows[k][QLIRO_ORDER_ID]) :
        k \in 1..NRows(qliro_file)}

MergedKeys == {AllMatched.rows[k][WGR_ORDER_ID] : k \in 1..NRows(AllMatched)}

\* C1: the order ids with a merged record are exactly those that are the key
\* of a QLIROCHECKOUT row of WGR and, once the prefix "WGR" is stripped, of a
\* row of QLIRO.
C1_JoinOnPrefixStrippedIds ==
    HasResults => MergedKeys = WgrKeys \cap QliroKeysPrefixStripped

\* C2: in every record of every group, 'Amount Mismatch' is true exactly when
\* 'Amount Difference' is above 0.01 or below -0.01, and 'Amount Difference'
\* is the difference of the two amounts, each of them the amount as joined
\* rounded to a multiple of 0.01 (not-a-number when either amount is).
C2_MismatchIffDifferenceAboveTolerance ==
    HasResults =>
        /\ \A g \in ResultType : \A k \in 1..NRows(results[g]) :
              LET r == results[g].rows[k]
                  d == r["Amount Difference"]
                  paid == r["Total Paid WGR"]
                  belopp == r["Belopp"]
              IN  /\ r["Amount Mismatch"]
                        <=> (d.t = "num" /\ (d.v > Cent \/ d.v < -Cent))
                  /\ IF paid.t = "num" /\ belopp.t = "num"
                     THEN /\ d.t = "num"
                          /\ d.v = paid.v - belopp.v
                          /\ paid.v % Cent = 0
                          /\ belopp.v % Cent = 0
                     ELSE d.t = "nan"
        /\ LET raw == MergedRaw(wgr_file, qliro_file)
           IN  \A k \in 1..NRows(raw) :
                  LET paid == raw.rows[k]["Total Paid WGR"]
                      belopp == raw.rows[k]["Belopp"]
                      r == AllMatched.rows[k]
                  IN  /\ IF paid.t = "num"
                         THEN /\ r["Total Paid WGR"].t = "num"
                              /\ 2 * Abs(r["Total Paid WGR"].v - paid.v)
                                     <= Cent
                         ELSE r["Total Paid WGR"].t = "nan"
                      /\ IF belopp.t = "num"
                         THEN /\ r["Belopp"].t = "num"
                              /\ 2 * Abs(r["Belopp"].v - belopp.v) <= Cent
                         ELSE r["Belopp"].t = "nan"

\* C2, its case: a record with a difference of exactly 0.01 that is no
\* mismatch beside one with a difference of 0.02 that is.
C2_Witness ==
    /\ HasResults
    /\ \E k \in 1..NRows(AllMatched) :
          /\ AllMatched.rows[k]["Amount Difference"] = Num(Cent)
          /\ ~AllMatched.rows[k]["Amount Mismatch"]
    /\ \E k \in 1..NRows(AllMatched) :
          /\ AllMatched.rows[k]["Amount Difference"] = Num(2 * Cent)
          /\ AllMatched.rows[k]["Amount Mismatch"]

\* C3: when both files carry every column process_data returns its groups,
\* and every merged record whose Belopp or Total Paid WGR was a non-numeric
\* text, coerced to not-a-number, is flagged as a mismatch.
C3_CoercedAmountIsFlagged ==
    (Processed /\ FilesComplete) =>
        /\ results # None
        /\ LET raw == MergedRaw(wgr_file, qliro_file)
           IN  \A k \in 1..NRows(raw) :
                  (\/ raw.rows[k]["Belopp"].t = "str"
                   \/ raw.rows[k]["Total Paid WGR"].t = "str")
                      => AllMatched.rows[k]["Amount Mismatch"]

\* C4: the in-period group holds exactly the merged records whose date d in
\* the chosen column has start <= d <= end, the ahead-of-period group exactly
\* those with d > end; start and end are midnight of their day, and so is a
\* record's date that was given without a time.
C4_PeriodGroupsByInclusiveBounds ==
    HasResults =>
        LET m == AllMatched
            start == 2 * start_date
            end == 2 * end_date
            within == {k \in 1..NRows(m) :
                          /\ m.rows[k][date_column].t = "ts"
                          /\ start <= m.rows[k][date_column].v
                          /\ m.rows[k][date_column].v <= end}
            after == {k \in 1..NRows(m) :
                         /\ m.rows[k][date_column].t = "ts"
                         /\ m.rows[k][date_column].v > end}
            raw == MergedRaw(wgr_file, qliro_file)
        IN  /\ Records(InPeriod) = {<<m.index[k], m.rows[k]>> : k \in within}
            /\ NRows(InPeriod) = Cardinality(within)
            /\ Records(Ahead) = {<<m.index[k], m.rows[k]>> : k \in after}
            /\ NRows(Ahead) = Cardinality(after)
            /\ \A k \in 1..NRows(raw) :
                  raw.rows[k][date_column].t = "date"
                      => m.rows[k][date_column]
                             = Ts(2 * raw.rows[k][date_column].day)

\* C4, its case: a period of more than one day, a record dated at the very
\* end of it in the in-period group, and a record ahead of the period.
C4_Witness ==
    /\ HasResults
    /\ start_date < end_date
    /\ \E j \in 1..NRows(InPeriod) :
          InPeriod.rows[j][date_column] = Ts(2 * end_date)
    /\ NRows(Ahead) > 0

\* C5: no record is in both the in-period and the ahead-of-period group, and
\* every record of either is a record of the all-matched group.
C5_GroupsDisjointWithinAllMatched ==
    HasResults =>
        /\ IndexLabels(InPeriod) \cap IndexLabels(Ahead) = {}
        /\ Records(InPeriod) \subseteq Records(AllMatched)
        /\ Records(Ahead) \subseteq Records(AllMatched)

\* C5, its case: both groups hold a record, one of them dated at the end of
\* the period.
C5_Witness ==
    /\ HasResults
    /\ NRows(Ahead) > 0
    /\ \E j \in 1..NRows(InPeriod) :
          InPeriod.rows[j][date_column] = Ts(2 * end_date)

\* the sum of 'Amount Difference' over the rows of a summary
RECURSIVE SumSummaryDifference(_)
SumSummaryDifference(rws) ==
    IF rws = <<>> THEN 0
    ELSE Head(rws).AmountDifference + SumSummaryDifference(Tail(rws))

\* the VAT rates of a frame, the missing one among them
RateCells(df) ==
    {df.rows[k]["Average VAT rate (%)"] : k \in 1..NRows(df)}

\* C6: for each group a summary is computed for, the 'Amount Difference' of
\* the summary rows adds up to that of the records of the group, to within
\* 0.01, and the summary has a row for every VAT rate of the group, the
\* missing rate among them.
C6_SummaryConservesAmountDifference ==
    (pc \in {"done", "error"} /\ summaries # None) =>
        \A g \in DOMAIN summaries :
            /\ Abs(SumSummaryDifference(summaries[g])
                       - SumColumn(results[g].rows, "Amount Difference"))
                   <= Cent
            /\ Len(summaries[g]) = Cardinality(RateCells(results[g]))

\* C7: called with a start date later than the end date, process_data raises
\* an InvalidRangeError to its caller and returns no groups.
C7_InvalidRangeIsSignalled ==
    (Processed /\ FilesComplete /\ start_date > end_date) =>
        /\ raised.type = "InvalidRangeError"
        /\ results = None

\* the file a column is missing from
SideOf(missing) == IF missing \subseteq WgrFileColumns THEN "WGR" ELSE "QLIRO"

\* C8: with a column missing from a file, process_data raises a SchemaError
\* naming the column and the side to its caller, and there is no result.
C8_MissingColumnRaisesSchemaError ==
    (Processed /\ MissingFromFiles # {}) =>
        /\ results = None
        /\ raised = Exception("SchemaError", MissingFromFiles,
                              SideOf(MissingFromFiles))

\* C9: whatever process_data returned, the two frames the caller passed in
\* are as they were read from the files.
C9_InputsUnchanged ==
    Processed => (wgr_df = wgr_file /\ qliro_df = qliro_file)

\* the buckets a merged record is in: before the period, in it, ahead of it
BucketsOf(k) ==
    LET d == AllMatched.rows[k][date_column]
        label == AllMatched.index[k]
    IN  (IF d.t = "ts" /\ d.v < 2 * start_date THEN {"before"} ELSE {})
            \cup (IF label \in IndexLabels(InPeriod) THEN {"in"} ELSE {})
            \cup (IF label \in IndexLabels(Ahead) THEN {"ahead"} ELSE {})

\* C10: every record of the all-matched group is in exactly one of the
\* buckets before-period, in-period and ahead-of-period.
C10_ExactlyOneBucket ==
    HasResults =>
        \A k \in 1..NRows(AllMatched) : Cardinality(BucketsOf(k)) = 1

===========================================================================
